---- MODULE Spec2Model ----
(***************************************************************************)
(* Model of the analysis-to-dialogue pipeline of the music emotion game:   *)
(* MusicEmotionGame (game/engine.py), GameConfig / GameResult              *)
(* (game/common.py), UnrealClient (game/unreal_client.py) and the upload   *)
(* dispatch of the Streamlit front end (app/main.py).                      *)
(*                                                                         *)
(* One engine instance is shared by the request threads.  A request is a   *)
(* call of process_audio_file or process_midi_file; every source line of   *)
(* the call is one step, so that the order of the side effects of a        *)
(* request is visible.  Confidences are integers 0..ConfScale standing for *)
(* the fractions k / ConfScale.                                            *)
(***************************************************************************)
EXTENDS Integers, Sequences, FiniteSets, TLC

VARIABLES
    history_limit,          \* config.history_limit
    confidence_threshold,   \* config.confidence_threshold
    unreal_enabled,         \* config.unreal_enabled
    classifier,             \* the loaded emotion model: features -> probabilities
    history,                \* MusicEmotionGame.history
    generated,              \* every turn the backend has returned, in order
    appended,               \* every turn appended to the history, in order
    overlap,                \* some request started while another was running
    nreq,                   \* number of requests submitted so far
    req                     \* per thread: position and locals of its request

vars == <<history_limit, confidence_threshold, unreal_enabled, classifier,
          history, generated, appended, overlap, nreq, req>>

\* Bookkeeping of the model that no step of a request touches, except the
\* append (appended) and the start of a request (overlap).
ghost == <<appended, overlap>>

config == <<history_limit, confidence_threshold, unreal_enabled, classifier>>

----------------------------------------------------------------------------
(* Bounds *)

MaxRequests == 3
MaxLimit == 2
ConfScale == 2

Threads == {"t1", "t2"}

----------------------------------------------------------------------------
(* Values *)

None == "None"
NoEmotion == [none |-> "emotion"]
NoTurn == [none |-> "turn"]
NoResult == [none |-> "result"]

Chords == {"Dm"}

EmotionLabels == <<"tense", "calm">>

LabelSet == {EmotionLabels[i] : i \in 1..Len(EmotionLabels)}

FEATURE_KEYS == {"tempo", "energy"}

ZeroDescriptors == [key \in FEATURE_KEYS |-> 0]

\* What the descriptor extractor can return for a recording: the full
\* feature key set, or a mapping that lacks a feature key and carries a
\* textual entry the classifier does not use.
AudioDescriptors ==
    { [key \in FEATURE_KEYS |-> IF key = "tempo" THEN 1 ELSE 0],
      [key \in {"tempo", "scale"} |-> IF key = "tempo" THEN 1 ELSE "minor"] }

Min(a, b) == IF a < b THEN a ELSE b

Max(a, b) == IF a < b THEN b ELSE a

\* numeric_features of _infer_emotion: descriptors.get(key, 0.0) per key
NumericFeatures(descriptors) ==
    [key \in FEATURE_KEYS |->
        IF key \in DOMAIN descriptors THEN descriptors[key] ELSE 0]

FeatureVectors ==
    {NumericFeatures(d) : d \in AudioDescriptors} \cup {ZeroDescriptors}

\* Probability distributions over the configured labels, in units of
\* 1 / ConfScale.
RECURSIVE SumOver(_, _)
SumOver(f, S) ==
    IF S = {} THEN 0
    ELSE LET l == CHOOSE l \in S : TRUE IN f[l] + SumOver(f, S \ {l})

Distributions ==
    {d \in [LabelSet -> 0..ConfScale] : SumOver(d, LabelSet) = ConfScale}

\* EmotionClassifier.predict: label is the arg-max of the probabilities
\* (first configured label on a tie), confidence its probability.
ArgMax(probs) ==
    LET best == CHOOSE i \in 1..Len(EmotionLabels) :
                    \A j \in 1..Len(EmotionLabels) :
                        \/ probs[EmotionLabels[j]] < probs[EmotionLabels[i]]
                        \/ /\ probs[EmotionLabels[j]] = probs[EmotionLabels[i]]
                           /\ i <= j
    IN EmotionLabels[best]

Predict(features) ==
    LET probs == classifier[features] IN
    [label |-> ArgMax(probs),
     confidence |-> probs[ArgMax(probs)],
     probabilities |-> probs]

\* seq[start:] of Python for any integer start
PySliceFrom(seq, start) ==
    LET n == Len(seq)
        lo == IF start < 0 THEN Max(n + start, 0) ELSE Min(start, n)
    IN SubSeq(seq, lo + 1, n)

\* Variant of TrimHistory: the slice keeps one turn too few.
TrimHistoryShort(h, limit) ==
    IF limit > 1 THEN PySliceFrom(h, 1 - limit) ELSE PySliceFrom(h, 0 - limit)

\* self.history[-self.config.history_limit :]
TrimHistory(h, limit) == PySliceFrom(h, 0 - limit)

----------------------------------------------------------------------------
(* Request state *)

Idle ==
    [pc |-> "idle", kind |-> None, chroma |-> None, chord |-> None,
     descriptors |-> ZeroDescriptors, prediction |-> NoEmotion,
     emotion |-> NoEmotion, turn |-> NoTurn, dialogue |-> NoTurn,
     sliced |-> <<>>, result |-> NoResult, sent |-> <<>>, err |-> None,
     hist0 |-> <<>>, ncls |-> 0, nllm |-> 0, nsend |-> 0,
     handed |-> NoResult]

\* An exception leaves the call at once: nothing later in the request runs.
Raise(p, kindOfError) ==
    req' = [req EXCEPT ![p].pc = "raised", ![p].err = kindOfError]

At(p, label) == req[p].pc = label

\* The call of thread p has begun and has neither returned nor raised.
Running(p) == req[p].pc \notin {"idle", "done", "raised"}

Init ==
    /\ history_limit \in 0..MaxLimit
    /\ confidence_threshold \in 0..ConfScale
    /\ unreal_enabled \in BOOLEAN
    /\ classifier \in [FeatureVectors -> Distributions]
    /\ history = <<>>
    /\ generated = <<>>
    /\ appended = <<>>
    /\ overlap = FALSE
    /\ nreq = 0
    /\ req = [p \in Threads |-> Idle]

----------------------------------------------------------------------------
(* app/main.py: _handle_upload dispatches one submission to the engine *)

Start(p) ==
    /\ At(p, "idle")
    /\ nreq < MaxRequests
    /\ nreq' = nreq + 1
    /\ \E kind \in {"audio", "midi"} :
          req' = [req EXCEPT ![p] =
                    [Idle EXCEPT !.pc = IF kind = "midi" THEN "midi_chroma"
                                                         ELSE "load",
                                 !.kind = kind,
                                 !.hist0 = history]]
    /\ overlap' = (overlap \/ \E q \in Threads : Running(q))
    /\ UNCHANGED <<config, history, generated, appended>>

\* One request at a time: the single-threaded scheduling of the pipeline.
StartSerial(p) ==
    /\ \A q \in Threads : At(q, "idle")
    /\ Start(p)

\* The caller takes the result (or the error) and the call frame is gone.
Finish(p) ==
    /\ At(p, "done") \/ At(p, "raised")
    /\ req' = [req EXCEPT ![p] = Idle]
    /\ UNCHANGED <<config, history, generated, ghost, nreq>>

----------------------------------------------------------------------------
(* engine.py: process_audio_file, lines 40-44 *)

LoadAudio(p) ==
    /\ At(p, "load")
    /\ \/ req' = [req EXCEPT ![p].pc = "chroma"]
       \/ Raise(p, "DecodeFailure")
    /\ UNCHANGED <<config, history, generated, ghost, nreq>>

ComputeChroma(p) ==
    /\ At(p, "chroma")
    /\ \/ req' = [req EXCEPT ![p].pc = "chord", ![p].chroma = "chroma"]
       \/ Raise(p, "AnalysisFailure")
    /\ UNCHANGED <<config, history, generated, ghost, nreq>>

EstimateChordAudio(p) ==
    /\ At(p, "chord")
    /\ \/ \E c \in Chords \cup {None} :
            req' = [req EXCEPT ![p].pc = "descriptors", ![p].chord = c]
       \/ Raise(p, "AnalysisFailure")
    /\ UNCHANGED <<config, history, generated, ghost, nreq>>

\* Variant of ExtractDescriptors: a failed extraction is swallowed and the
\* request goes on with placeholder descriptors.
ExtractDescriptorsSwallow(p) ==
    /\ At(p, "descriptors")
    /\ \/ \E d \in AudioDescriptors :
            req' = [req EXCEPT ![p].pc = "emotion", ![p].descriptors = d]
       \/ req' = [req EXCEPT ![p].pc = "emotion",
                             ![p].descriptors = ZeroDescriptors,
                             ![p].err = "AnalysisFailure"]
    /\ UNCHANGED <<config, history, generated, ghost, nreq>>

ExtractDescriptors(p) ==
    /\ At(p, "descriptors")
    /\ \/ \E d \in AudioDescriptors :
            req' = [req EXCEPT ![p].pc = "emotion", ![p].descriptors = d]
       \/ Raise(p, "AnalysisFailure")
    /\ UNCHANGED <<config, history, generated, ghost, nreq>>

\* Variant of InferEmotion: the gate also drops a confidence equal to the
\* threshold.
InferEmotionInclusive(descriptors) ==
    LET prediction == Predict(NumericFeatures(descriptors)) IN
    IF prediction.confidence <= confidence_threshold
    THEN NoEmotion
    ELSE prediction

\* _infer_emotion, lines 66-71
InferEmotion(descriptors) ==
    LET prediction == Predict(NumericFeatures(descriptors)) IN
    IF prediction.confidence < confidence_threshold
    THEN NoEmotion
    ELSE prediction

InferEmotionAudio(p) ==
    /\ At(p, "emotion")
    /\ req' = [req EXCEPT
                 ![p].pc = "gate",
                 ![p].prediction = Predict(NumericFeatures(req[p].descriptors)),
                 ![p].emotion = InferEmotion(req[p].descriptors),
                 ![p].ncls = @ + 1]
    /\ UNCHANGED <<config, history, generated, ghost, nreq>>

----------------------------------------------------------------------------
(* engine.py: process_midi_file, lines 54-57 *)

DeriveChromaMidi(p) ==
    /\ At(p, "midi_chroma")
    /\ \/ \E c \in {None, "chroma"} :
            req' = [req EXCEPT ![p].pc = "midi_chord", ![p].chroma = c]
       \/ Raise(p, "DecodeFailure")
    /\ UNCHANGED <<config, history, generated, ghost, nreq>>

EstimateChordMidi(p) ==
    /\ At(p, "midi_chord")
    /\ IF req[p].chroma # None
       THEN \/ \E c \in Chords \cup {None} :
                 req' = [req EXCEPT ![p].pc = "midi_descriptors",
                                    ![p].chord = c]
            \/ Raise(p, "AnalysisFailure")
       ELSE req' = [req EXCEPT ![p].pc = "midi_descriptors",
                               ![p].chord = None]
    /\ UNCHANGED <<config, history, generated, ghost, nreq>>

\* Variant of MidiDescriptors: the placeholder is used only when no chord
\* was found, a detected chord gets descriptors of its own.
MidiDescriptorsFromChord(p) ==
    /\ At(p, "midi_descriptors")
    /\ IF req[p].chord = None
       THEN req' = [req EXCEPT ![p].pc = "midi_emotion",
                               ![p].descriptors = ZeroDescriptors]
       ELSE \E d \in AudioDescriptors :
               req' = [req EXCEPT ![p].pc = "midi_emotion",
                                  ![p].descriptors = d]
    /\ UNCHANGED <<config, history, generated, ghost, nreq>>

MidiDescriptors(p) ==
    /\ At(p, "midi_descriptors")
    /\ req' = [req EXCEPT ![p].pc = "midi_emotion",
                          ![p].descriptors = ZeroDescriptors]
    /\ UNCHANGED <<config, history, generated, ghost, nreq>>

\* Variant of InferEmotionMidi: the classifier runs whether or not a chord
\* was found.
InferEmotionMidiAlways(p) ==
    /\ At(p, "midi_emotion")
    /\ req' = [req EXCEPT
                 ![p].pc = "gate",
                 ![p].prediction = Predict(NumericFeatures(req[p].descriptors)),
                 ![p].emotion = InferEmotion(req[p].descriptors),
                 ![p].ncls = @ + 1]
    /\ UNCHANGED <<config, history, generated, ghost, nreq>>

InferEmotionMidi(p) ==
    /\ At(p, "midi_emotion")
    /\ IF req[p].chord # None
       THEN req' = [req EXCEPT
                      ![p].pc = "gate",
                      ![p].prediction =
                          Predict(NumericFeatures(req[p].descriptors)),
                      ![p].emotion = InferEmotion(req[p].descriptors),
                      ![p].ncls = @ + 1]
       ELSE req' = [req EXCEPT ![p].pc = "gate", ![p].emotion = NoEmotion]
    /\ UNCHANGED <<config, history, generated, ghost, nreq>>

----------------------------------------------------------------------------
(* engine.py: _generate_dialogue, lines 73-91 *)

\* Variant of GateClosed: the gate closes only when both are missing.
GateClosedBoth(chord, emotion) == chord = None /\ emotion = NoEmotion

\* line 79: not chord or not emotion
GateClosed(chord, emotion) == chord = None \/ emotion = NoEmotion

DialogueGate(p) ==
    /\ At(p, "gate")
    /\ IF GateClosed(req[p].chord, req[p].emotion)
       THEN req' = [req EXCEPT ![p].pc = "assemble", ![p].dialogue = NoTurn]
       ELSE req' = [req EXCEPT ![p].pc = "generate"]
    /\ UNCHANGED <<config, history, generated, ghost, nreq>>

\* OllamaClient.generate answers with one new turn or fails with an error.
BackendOutcomes == {"turn", "error"}

NewTurn == [role |-> "assistant", content |-> Len(generated) + 1]

\* Variant of Generate: the turn is put into the history before the backend
\* has answered.
GenerateAppendFirst(p) ==
    /\ At(p, "generate")
    /\ \E outcome \in BackendOutcomes :
          IF outcome = "turn"
          THEN /\ req' = [req EXCEPT ![p].pc = "append",
                                     ![p].turn = NewTurn,
                                     ![p].nllm = @ + 1]
               /\ generated' = Append(generated, NewTurn)
               /\ UNCHANGED history
          ELSE /\ req' = [req EXCEPT ![p].pc = "raised",
                                     ![p].err = "BackendUnavailable",
                                     ![p].nllm = @ + 1]
               /\ history' = Append(history, NewTurn)
               /\ UNCHANGED generated
    /\ UNCHANGED <<config, ghost, nreq>>

\* lines 83-88: the call is not guarded, an error of the backend leaves
\* _generate_dialogue and the process_* call that made it.
Generate(p) ==
    /\ At(p, "generate")
    /\ \E outcome \in BackendOutcomes :
          IF outcome = "turn"
          THEN /\ req' = [req EXCEPT ![p].pc = "append",
                                     ![p].turn = NewTurn,
                                     ![p].nllm = @ + 1]
               /\ generated' = Append(generated, NewTurn)
          ELSE /\ req' = [req EXCEPT ![p].pc = "raised",
                                     ![p].err = "BackendUnavailable",
                                     ![p].nllm = @ + 1]
               /\ UNCHANGED generated
    /\ UNCHANGED <<config, history, ghost, nreq>>

\* line 89 (the load of self.history and the append are taken as one step)
AppendTurn(p) ==
    /\ At(p, "append")
    /\ history' = Append(history, req[p].turn)
    /\ appended' = Append(appended, req[p].turn)
    /\ req' = [req EXCEPT ![p].pc = "slice"]
    /\ UNCHANGED <<config, generated, overlap, nreq>>

\* line 90, right-hand side: the slice is a new list
SliceHistory(p) ==
    /\ At(p, "slice")
    /\ req' = [req EXCEPT ![p].pc = "store",
                          ![p].sliced = TrimHistory(history, history_limit)]
    /\ UNCHANGED <<config, history, generated, ghost, nreq>>

\* line 90, assignment to self.history
StoreHistory(p) ==
    /\ At(p, "store")
    /\ history' = req[p].sliced
    /\ req' = [req EXCEPT ![p].pc = "ret_turn"]
    /\ UNCHANGED <<config, generated, ghost, nreq>>

\* Variant of ReturnTurn: the turn is stored but not returned.
ReturnTurnNothing(p) ==
    /\ At(p, "ret_turn")
    /\ req' = [req EXCEPT ![p].pc = "assemble", ![p].dialogue = NoTurn]
    /\ UNCHANGED <<config, history, generated, ghost, nreq>>

\* line 91, received by the caller's local `dialogue`
ReturnTurn(p) ==
    /\ At(p, "ret_turn")
    /\ req' = [req EXCEPT ![p].pc = "assemble", ![p].dialogue = req[p].turn]
    /\ UNCHANGED <<config, history, generated, ghost, nreq>>

----------------------------------------------------------------------------
(* unreal_client.py: UnrealClient.send_game_result *)

Msg(address, value) == [address |-> address, value |-> value]

\* Order in which a mapping is iterated (insertion order of the dict).
KeyOrder == <<"tempo", "energy", "scale", "mfcc">>

\* Python type of the value a descriptor key holds.
ValueType(key) ==
    IF key = "scale" THEN "str" ELSE IF key = "mfcc" THEN "list" ELSE "float"

\* lines 32-35: isinstance(value, (float, int, str))
ScalarItems(mapping) ==
    [key \in {k \in DOMAIN mapping : ValueType(k) \in {"float", "int", "str"}}
        |-> mapping[key]]

RECURSIVE ItemMessages(_, _, _, _)
ItemMessages(prefix, order, mapping, i) ==
    IF i > Len(order) THEN <<>>
    ELSE (IF order[i] \in DOMAIN mapping
          THEN <<Msg(Append(prefix, order[i]), mapping[order[i]])>>
          ELSE <<>>)
         \o ItemMessages(prefix, order, mapping, i + 1)

\* Variant of ChordMessages: the label is sent without asking whether
\* there is a chord.
ChordMessagesUnguarded(result) ==
    <<Msg(<<"music", "chord", "label">>, result.chord)>>

ChordMessages(result) ==
    IF result.chord # None
    THEN <<Msg(<<"music", "chord", "label">>, result.chord)>>
    ELSE <<>>

EmotionMessages(result) ==
    IF result.emotion # NoEmotion
    THEN <<Msg(<<"music", "emotion", "label">>, result.emotion.label),
           Msg(<<"music", "emotion", "confidence">>,
               result.emotion.confidence)>>
         \o ItemMessages(<<"music", "emotion", "probability">>,
                         EmotionLabels, result.emotion.probabilities, 1)
    ELSE <<>>

DialogueMessages(result) ==
    IF result.dialogue # NoTurn
    THEN <<Msg(<<"music", "llm", "content">>, result.dialogue.content),
           Msg(<<"music", "llm", "role">>, result.dialogue.role)>>
    ELSE <<>>

\* Variant of DescriptorMessages: another address prefix.
DescriptorMessagesPlural(result) ==
    ItemMessages(<<"music", "descriptors">>, KeyOrder,
                 ScalarItems(result.descriptors), 1)

DescriptorMessages(result) ==
    ItemMessages(<<"music", "descriptor">>, KeyOrder,
                 ScalarItems(result.descriptors), 1)

\* Variant of send_game_result: the descriptors go out before the dialogue.
send_game_result_reordered(result) ==
    ChordMessages(result) \o EmotionMessages(result)
        \o DescriptorMessages(result) \o DialogueMessages(result)

send_game_result(result) ==
    ChordMessages(result) \o EmotionMessages(result)
        \o DialogueMessages(result) \o DescriptorMessages(result)

----------------------------------------------------------------------------
(* engine.py: lines 46-51 of process_audio_file, 59-64 of process_midi_file *)

GameResult(chord, emotion, descriptors, dialogue) ==
    [chord |-> chord, emotion |-> emotion, descriptors |-> descriptors,
     dialogue |-> dialogue]

Assemble(p) ==
    /\ At(p, "assemble")
    /\ req' = [req EXCEPT
                 ![p].pc = "send",
                 ![p].result = GameResult(req[p].chord, req[p].emotion,
                                          req[p].descriptors, req[p].dialogue)]
    /\ UNCHANGED <<config, history, generated, ghost, nreq>>

\* Variant of Send: the sink is served whatever the configuration says.
SendAlways(p) ==
    /\ At(p, "send")
    /\ LET msgs == send_game_result(req[p].result) IN
       \/ req' = [req EXCEPT ![p].pc = "return", ![p].sent = msgs,
                             ![p].nsend = @ + 1,
                             ![p].handed = req[p].result]
       \/ \E k \in 0..(Len(msgs) - 1) :
            req' = [req EXCEPT ![p].pc = "raised",
                               ![p].err = "SinkFailure",
                               ![p].sent = SubSeq(msgs, 1, k),
                               ![p].nsend = @ + 1,
                               ![p].handed = req[p].result]
    /\ UNCHANGED <<config, history, generated, ghost, nreq>>

\* if self.unreal_client: self.unreal_client.send_game_result(result)
\* A datagram send can fail; the messages before it have left already.
Send(p) ==
    /\ At(p, "send")
    /\ IF unreal_enabled
       THEN LET msgs == send_game_result(req[p].result) IN
            \/ req' = [req EXCEPT ![p].pc = "return", ![p].sent = msgs,
                                  ![p].nsend = @ + 1,
                                  ![p].handed = req[p].result]
            \/ \E k \in 0..(Len(msgs) - 1) :
                 req' = [req EXCEPT ![p].pc = "raised",
                                    ![p].err = "SinkFailure",
                                    ![p].sent = SubSeq(msgs, 1, k),
                                    ![p].nsend = @ + 1,
                                    ![p].handed = req[p].result]
       ELSE req' = [req EXCEPT ![p].pc = "return"]
    /\ UNCHANGED <<config, history, generated, ghost, nreq>>

Return(p) ==
    /\ At(p, "return")
    /\ req' = [req EXCEPT ![p].pc = "done"]
    /\ UNCHANGED <<config, history, generated, ghost, nreq>>

----------------------------------------------------------------------------
(* Specification: requests are served one at a time *)

Next ==
    \E p \in Threads :
        \/ StartSerial(p)
        \/ LoadAudio(p)
        \/ ComputeChroma(p)
        \/ EstimateChordAudio(p)
        \/ ExtractDescriptors(p)
        \/ InferEmotionAudio(p)
        \/ DeriveChromaMidi(p)
        \/ EstimateChordMidi(p)
        \/ MidiDescriptors(p)
        \/ InferEmotionMidi(p)
        \/ DialogueGate(p)
        \/ Generate(p)
        \/ AppendTurn(p)
        \/ SliceHistory(p)
        \/ StoreHistory(p)
        \/ ReturnTurn(p)
        \/ Assemble(p)
        \/ Send(p)
        \/ Return(p)
        \/ Finish(p)

Spec == Init /\ [][Next]_vars

\* No request is in the middle of a call.
Quiescent == \A p \in Threads : req[p].pc \in {"idle", "done", "raised"}

----------------------------------------------------------------------------
(* Specification: requests of several sessions run against the one cached  *)
(* engine (app/main.py, load_game) with nothing serializing them           *)

\* A model that is confident on every input: every request with a chord
\* reaches the dialogue stage.
ConfidentClassifier ==
    [f \in FeatureVectors |->
        [l \in LabelSet |-> IF l = EmotionLabels[1] THEN ConfScale ELSE 0]]

InitConc ==
    /\ history_limit \in 0..MaxLimit
    /\ confidence_threshold = 0
    /\ unreal_enabled = FALSE
    /\ classifier = ConfidentClassifier
    /\ history = <<>>
    /\ generated = <<>>
    /\ appended = <<>>
    /\ overlap = FALSE
    /\ nreq = 0
    /\ req = [p \in Threads |-> Idle]

\* The steps of a request up to the dialogue stage and from it on.
Analyse(p) ==
    \/ LoadAudio(p)
    \/ ComputeChroma(p)
    \/ EstimateChordAudio(p)
    \/ ExtractDescriptors(p)
    \/ InferEmotionAudio(p)
    \/ DeriveChromaMidi(p)
    \/ EstimateChordMidi(p)
    \/ MidiDescriptors(p)
    \/ InferEmotionMidi(p)
    \/ DialogueGate(p)
    \/ Generate(p)

Deliver(p) ==
    \/ ReturnTurn(p)
    \/ Assemble(p)
    \/ Send(p)
    \/ Return(p)
    \/ Finish(p)

NextConc ==
    \E p \in Threads :
        \/ Start(p)
        \/ Analyse(p)
        \/ AppendTurn(p)
        \/ SliceHistory(p)
        \/ StoreHistory(p)
        \/ Deliver(p)

SpecConc == InitConc /\ [][NextConc]_vars

----------------------------------------------------------------------------
(* Properties *)

Finished(p) == At(p, "done") \/ At(p, "raised")

\* The last min(Len(turns), limit) elements of turns.
LastTurns(turns, limit) ==
    SubSeq(turns, Len(turns) - Min(Len(turns), limit) + 1, Len(turns))

\* C1: between requests the history never holds more than history_limit
\* turns, for every history_limit >= 0.
C1_HistoryWithinLimit ==
    Quiescent => Len(history) <= history_limit

\* C2: after N generated turns the history is exactly the last
\* min(N, history_limit) of them, in generation order.
C2_HistoryIsLastTurns ==
    Quiescent => history = LastTurns(generated, history_limit)

\* C3: a result without chord or without (gated) emotion has no dialogue,
\* and the request that made it never called the text backend.
C3_NoDialogueWithoutChordAndEmotion ==
    \A p \in Threads :
        /\ (req[p].chord = None \/ req[p].emotion = NoEmotion)
              => req[p].nllm = 0
        /\ req[p].result # NoResult
              => LET result == req[p].result IN
                 (result.chord = None \/ result.emotion = NoEmotion)
                    => result.dialogue = NoTurn /\ req[p].nllm = 0

C3_Witness ==
    \E p \in Threads :
        /\ At(p, "done")
        /\ req[p].result.chord # None
        /\ req[p].result.emotion = NoEmotion
        /\ req[p].result.dialogue = NoTurn
        /\ req[p].ncls = 1

\* C4: when the classifier has run, the emotion of the request is unset
\* exactly when the confidence is strictly below the threshold; otherwise,
\* equality included, it is the prediction itself.
C4_GateIsStrict ==
    \A p \in Threads :
        req[p].ncls > 0 =>
            LET prediction == req[p].prediction IN
            /\ (req[p].emotion = NoEmotion)
                  <=> (prediction.confidence < confidence_threshold)
            /\ prediction.confidence >= confidence_threshold
                  => req[p].emotion = prediction
            /\ req[p].result # NoResult
                  => req[p].result.emotion = req[p].emotion

C4_Witness ==
    \E p \in Threads :
        /\ At(p, "done")
        /\ req[p].ncls = 1
        /\ confidence_threshold > 0
        /\ req[p].prediction.confidence = confidence_threshold
        /\ req[p].result.emotion = req[p].prediction

\* C5: a request whose backend call failed still ends by returning a
\* GameResult, with chord, emotion and descriptors as computed and the
\* dialogue unset.
C5_BackendFailureDegrades ==
    \A p \in Threads :
        (Finished(p) /\ req[p].err = "BackendUnavailable")
            => /\ At(p, "done")
               /\ req[p].result = GameResult(req[p].chord, req[p].emotion,
                                             req[p].descriptors, NoTurn)

\* C6: a request whose sink raised during send still ends by returning the
\* GameResult it had assembled.
C6_SinkFailureIsolated ==
    \A p \in Threads :
        (Finished(p) /\ req[p].err = "SinkFailure")
            => /\ At(p, "done")
               /\ req[p].result = GameResult(req[p].chord, req[p].emotion,
                                             req[p].descriptors,
                                             req[p].dialogue)

\* C7: a failure of decoding, chroma or descriptor extraction or chord
\* estimation ends the request with the error: no result exists, the
\* history is the one the request started with, nothing went to the sink.
C7_UpstreamFailurePropagates ==
    \A p \in Threads :
        req[p].err \in {"DecodeFailure", "AnalysisFailure"}
            => /\ At(p, "raised")
               /\ req[p].result = NoResult
               /\ history = req[p].hist0
               /\ req[p].sent = <<>>
               /\ req[p].nllm = 0

C7_Witness ==
    \E p \in Threads :
        /\ At(p, "raised")
        /\ req[p].err = "AnalysisFailure"
        /\ req[p].chord # None
        /\ unreal_enabled
        /\ req[p].hist0 # <<>>

\* C8: a MIDI result without chord has no emotion, no dialogue and the
\* zero-filled descriptors, and its request called neither the classifier
\* nor the text backend.
C8_MidiWithoutChord ==
    \A p \in Threads :
        (req[p].kind = "midi" /\ req[p].result # NoResult
            /\ req[p].result.chord = None)
            => /\ req[p].result.emotion = NoEmotion
               /\ req[p].result.dialogue = NoTurn
               /\ req[p].result.descriptors = ZeroDescriptors
               /\ req[p].ncls = 0
               /\ req[p].nllm = 0

C8_Witness ==
    \E p \in Threads :
        /\ At(p, "done")
        /\ req[p].kind = "midi"
        /\ req[p].chroma # None
        /\ req[p].result.chord = None
        /\ Predict(ZeroDescriptors).confidence >= confidence_threshold

\* C9: a request that returns without dialogue leaves the history as it
\* found it.
C9_NoDialogueLeavesHistory ==
    \A p \in Threads :
        (At(p, "done") /\ req[p].result.dialogue = NoTurn)
            => history = req[p].hist0

C9_Witness ==
    \E p \in Threads :
        /\ At(p, "done")
        /\ req[p].result.dialogue = NoTurn
        /\ req[p].result.chord # None
        /\ req[p].ncls = 1
        /\ req[p].hist0 # <<>>
        /\ history = req[p].hist0

\* C10: a request in which the backend returned a turn called it once,
\* returns that turn as its dialogue, and leaves the history one turn
\* longer, capped at history_limit.
C10_TurnAppendedOnce ==
    \A p \in Threads :
        (At(p, "done") /\ req[p].turn # NoTurn)
            => /\ req[p].nllm = 1
               /\ req[p].result.dialogue = req[p].turn
               /\ Len(history) = Min(Len(req[p].hist0) + 1, history_limit)

----------------------------------------------------------------------------
(* Concurrent requests *)

\* What the requests leave in the history when they run one after the
\* other and append their turns in this order (a limit of 0 trims nothing,
\* see C1).
SequentialHistory(turns, limit) ==
    IF limit = 0 THEN turns ELSE LastTurns(turns, limit)

\* Position of a turn in a sequence of turns, 0 when absent.
IndexIn(turns, turn) ==
    IF \E i \in 1..Len(turns) : turns[i] = turn
    THEN CHOOSE i \in 1..Len(turns) : turns[i] = turn
    ELSE 0

\* The retained turns stand in the order the backend generated them.
InGenerationOrder(turns) ==
    \A i, j \in 1..Len(turns) :
        i < j => IndexIn(generated, turns[i]) < IndexIn(generated, turns[j])

\* A turn that every sequential execution would retain is not in the
\* history.
TurnLost ==
    \E i \in 1..Len(appended) :
        /\ Len(appended) - i < Max(history_limit, 1)
        /\ IndexIn(history, appended[i]) = 0

\* C11: without serialization two requests can interleave their append
\* and trim so that a generated turn is missing from the history or the
\* retained turns are out of generation order; such a history arises only
\* when requests overlapped, never from requests run one after another.
C11_CorruptionNeedsOverlap ==
    (Quiescent /\ ~overlap)
        => /\ history = SequentialHistory(appended, history_limit)
           /\ appended = generated
           /\ ~TurnLost
           /\ InGenerationOrder(history)

\* Both requests generated and appended a turn, the limit has room for
\* both, and one of them is gone.
C11_Witness ==
    /\ Quiescent
    /\ overlap
    /\ history_limit >= 2
    /\ Len(generated) = 2
    /\ Len(appended) = 2
    /\ TurnLost
    /\ Len(history) = 1

\* Both turns are retained, the later generated one first.
C11_WitnessOrder ==
    /\ Quiescent
    /\ overlap
    /\ Len(history) = 2
    /\ ~InGenerationOrder(history)

----------------------------------------------------------------------------
(* Order of the side effects of one request *)

\* C12: in every step of a request, (a) the history changes only after the
\* backend has returned the turn and before the result exists, (b) the
\* result is assembled only once the turn, if any, is appended and the
\* history trimmed, and before anything went to the sink, (c) the sink is
\* called only with the assembled result, which it leaves as it is, and
\* (d) the call returns only after the sink, if enabled, was served.
C12_SideEffectOrder ==
    [][\A p \in Threads :
        /\ (history' # history /\ req'[p] # req[p])
              => /\ req[p].turn # NoTurn
                 /\ req[p].nllm = 1
                 /\ req[p].result = NoResult
                 /\ req'[p].result = NoResult
        /\ (req[p].result = NoResult /\ req'[p].result # NoResult)
              => /\ history' = history
                 /\ req[p].turn # NoTurn
                       => history =
                            SequentialHistory(Append(req[p].hist0, req[p].turn),
                                              history_limit)
                 /\ req[p].nsend = 0
                 /\ req'[p].nsend = 0
                 /\ req'[p].sent = <<>>
        /\ req'[p].nsend > req[p].nsend
              => /\ req[p].result # NoResult
                 /\ req'[p].result = req[p].result
                 /\ req'[p].handed = req[p].result
                 /\ ~At(p, "done")
        /\ (~At(p, "done") /\ req'[p].pc = "done")
              => /\ req[p].result # NoResult
                 /\ req'[p].result = req[p].result
                 /\ unreal_enabled => req[p].nsend = 1
                 /\ history' = history
      ]_vars

C12_Witness ==
    \E p \in Threads :
        /\ At(p, "done")
        /\ req[p].turn # NoTurn
        /\ req[p].result.dialogue = req[p].turn
        /\ history # req[p].hist0
        /\ unreal_enabled
        /\ req[p].nsend = 1

----------------------------------------------------------------------------
(* Specification: concurrent requests, with lines 89-90 of                 *)
(* _generate_dialogue held under one lock and nothing else serialized      *)

AppendTrimLocked(p) ==
    /\ At(p, "append")
    /\ history' = TrimHistory(Append(history, req[p].turn), history_limit)
    /\ appended' = Append(appended, req[p].turn)
    /\ req' = [req EXCEPT ![p].pc = "ret_turn"]
    /\ UNCHANGED <<config, generated, overlap, nreq>>

NextLocked ==
    \E p \in Threads :
        \/ Start(p)
        \/ Analyse(p)
        \/ AppendTrimLocked(p)
        \/ Deliver(p)

SpecLocked == InitConc /\ [][NextLocked]_vars

\* C13: with the append and the trim in one atomic step, in every state the
\* history is the last min(n, history_limit) of the n appended turns, in
\* the order of the atomic steps, and so never longer than history_limit.
C13_LockedHistoryIsLastAppended ==
    /\ history = LastTurns(appended, history_limit)
    /\ Len(history) <= history_limit

----------------------------------------------------------------------------
(* Specification: the sink is handed any GameResult *)

\* Descriptor mappings a result can carry, one of them with a list value.
SinkDescriptors ==
    AudioDescriptors \cup {ZeroDescriptors}
        \cup { [key \in {"tempo", "mfcc"} |->
                  IF key = "tempo" THEN 1 ELSE <<1, 2>>] }

SinkEmotions ==
    {NoEmotion} \cup
    { [label |-> ArgMax(probs), confidence |-> probs[ArgMax(probs)],
       probabilities |-> probs] : probs \in Distributions }

SinkTurns ==
    {NoTurn} \cup {[role |-> "assistant", content |-> n] : n \in 1..MaxRequests}

GameResults ==
    { GameResult(chord, emotion, descriptors, dialogue) :
        chord \in Chords \cup {None}, emotion \in SinkEmotions,
        descriptors \in SinkDescriptors, dialogue \in SinkTurns }

InitSink ==
    /\ history_limit \in 0..MaxLimit
    /\ confidence_threshold = 0
    /\ unreal_enabled = TRUE
    /\ classifier = ConfidentClassifier
    /\ history = <<>>
    /\ generated = <<>>
    /\ appended = <<>>
    /\ overlap = FALSE
    /\ nreq = 1
    /\ \E result \in GameResults, sender \in Threads :
          req = [p \in Threads |->
                   IF p = sender
                   THEN [Idle EXCEPT !.pc = "send",
                                     !.kind = "audio",
                                     !.chord = result.chord,
                                     !.emotion = result.emotion,
                                     !.descriptors = result.descriptors,
                                     !.dialogue = result.dialogue,
                                     !.result = result]
                   ELSE Idle]

NextSink ==
    \E p \in Threads :
        \/ Send(p)
        \/ Return(p)

SpecSink == InitSink /\ [][NextSink]_vars

\* The send of thread p ran to its end.
SendCompleted(p) == req[p].nsend = 1 /\ req[p].pc \in {"return", "done"}

\* Number of messages of a sequence whose address satisfies a test.
CountMessages(msgs, Test(_)) ==
    Cardinality({i \in 1..Len(msgs) : Test(msgs[i].address)})

IsChordAddress(address) == address[2] = "chord"

IsEmotionAddress(address) == address[2] = "emotion"

IsDialogueAddress(address) == address[2] \in {"llm", "dialogue"}

IsDescriptorAddress(address) == address[2] = "descriptor"

\* Group of a message in the order of the result's fields.
GroupRank(address) ==
    IF IsChordAddress(address) THEN 1
    ELSE IF IsEmotionAddress(address) THEN 2
    ELSE IF IsDialogueAddress(address) THEN 3
    ELSE 4

\* Position inside the emotion group: label, confidence, probabilities.
EmotionRank(address) ==
    IF address[3] = "label" THEN 1
    ELSE IF address[3] = "confidence" THEN 2
    ELSE 3

\* C14: in whatever the sink has sent, complete or cut short by a failure,
\* no message of a later group precedes a message of an earlier group
\* (chord, emotion, dialogue, descriptors), and inside the emotion group
\* the label precedes the confidence, which precedes the probabilities.
C14_MessagesInFieldOrder ==
    \A p \in Threads :
        LET sent == req[p].sent IN
        \A i, j \in 1..Len(sent) :
            i < j =>
                /\ GroupRank(sent[i].address) <= GroupRank(sent[j].address)
                /\ (IsEmotionAddress(sent[i].address)
                        /\ IsEmotionAddress(sent[j].address))
                      => EmotionRank(sent[i].address)
                            <= EmotionRank(sent[j].address)

C14_Witness ==
    \E p \in Threads :
        /\ SendCompleted(p)
        /\ req[p].result.chord # None
        /\ req[p].result.emotion # NoEmotion
        /\ req[p].result.dialogue # NoTurn
        /\ "scale" \in DOMAIN req[p].result.descriptors
        /\ Len(req[p].sent) = 1 + (2 + Len(EmotionLabels)) + 2 + 2

\* Number of messages each field of a result calls for.
ChordCount(result) == IF result.chord # None THEN 1 ELSE 0

EmotionCount(result) ==
    IF result.emotion # NoEmotion THEN 2 + Len(EmotionLabels) ELSE 0

DialogueCount(result) == IF result.dialogue # NoTurn THEN 2 ELSE 0

DescriptorCount(result) ==
    Cardinality({key \in DOMAIN result.descriptors :
                    ValueType(key) # "list"})

\* C15: a send that ran to its end has emitted, for whatever subset of
\* chord, emotion and dialogue is set, exactly one chord message, two plus
\* one per label emotion messages, two dialogue messages and one message
\* per descriptor key with a scalar value, and none for an unset field.
C15_MessagesOfPresentFields ==
    \A p \in Threads :
        SendCompleted(p) =>
            LET sent == req[p].sent
                result == req[p].result
            IN /\ CountMessages(sent, IsChordAddress) = ChordCount(result)
               /\ CountMessages(sent, IsEmotionAddress) = EmotionCount(result)
               /\ CountMessages(sent, IsDialogueAddress)
                     = DialogueCount(result)
               /\ CountMessages(sent, IsDescriptorAddress)
                     = DescriptorCount(result)
               /\ Len(sent) = ChordCount(result) + EmotionCount(result)
                     + DialogueCount(result) + DescriptorCount(result)
               /\ \A i \in 1..Len(sent) :
                     IsDescriptorAddress(sent[i].address)
                        => ValueType(sent[i].address[3]) # "list"

\* A result no request of the engine builds: dialogue without chord, and a
\* descriptor that holds a list.
C15_Witness ==
    \E p \in Threads :
        /\ SendCompleted(p)
        /\ req[p].result.chord = None
        /\ req[p].result.emotion = NoEmotion
        /\ req[p].result.dialogue # NoTurn
        /\ "mfcc" \in DOMAIN req[p].result.descriptors
        /\ Len(req[p].sent) = 3

\* C16: with the sink enabled a request that returns has handed its
\* result to the sink, once; with the sink disabled no request has sent or
\* handed over anything.
C16_SinkServedOncePerResult ==
    \A p \in Threads :
        /\ (unreal_enabled /\ At(p, "done"))
              => /\ req[p].nsend = 1
                 /\ req[p].handed = req[p].result
                 /\ req[p].sent = send_game_result(req[p].result)
        /\ ~unreal_enabled
              => /\ req[p].nsend = 0
                 /\ req[p].sent = <<>>
                 /\ req[p].handed = NoResult
        /\ req[p].nsend <= 1

C16_Witness ==
    \E p \in Threads :
        /\ At(p, "done")
        /\ unreal_enabled
        /\ req[p].nsend = 1
        /\ req[p].result.dialogue # NoTurn
        /\ req[p].sent # <<>>

\* Field of the result that the i-th message of a complete send carries.
FieldAt(result, i) ==
    IF i <= ChordCount(result) THEN "chord"
    ELSE IF i <= ChordCount(result) + EmotionCount(result) THEN "emotion"
    ELSE IF i <= ChordCount(result) + EmotionCount(result)
                    + DialogueCount(result) THEN "dialogue"
    ELSE "descriptor"

\* The address, below its first segment, has the form the scheme gives the
\* field, with the dialogue under the given namespace.
AddressFits(address, field, result, dialogueNamespace) ==
    LET path == Tail(address) IN
    IF field = "chord" THEN path = <<"chord", "label">>
    ELSE IF field = "emotion"
    THEN \/ path = <<"emotion", "label">>
         \/ path = <<"emotion", "confidence">>
         \/ \E l \in DOMAIN result.emotion.probabilities :
               path = <<"emotion", "probability", l>>
    ELSE IF field = "dialogue"
    THEN \/ path = <<dialogueNamespace, "content">>
         \/ path = <<dialogueNamespace, "role">>
    ELSE \E key \in DOMAIN result.descriptors :
            path = <<"descriptor", key>>

AddressesFit(dialogueNamespace) ==
    \A p \in Threads :
        SendCompleted(p) =>
            \A i \in 1..Len(req[p].sent) :
                AddressFits(req[p].sent[i].address,
                            FieldAt(req[p].result, i), req[p].result,
                            dialogueNamespace)

\* C17 as stated: every message is addressed under the namespace of its
\* field, the dialogue under .../dialogue/content and .../dialogue/role.
C17_AddressesUnderFieldName == AddressesFit("dialogue")

\* C17 as amended: chord, emotion and descriptor messages are addressed
\* under the name of their field, the dialogue under .../llm/content and
\* .../llm/role.
C17_AddressesOfTheCode == AddressesFit("llm")

C17_Witness ==
    \E p \in Threads :
        /\ SendCompleted(p)
        /\ req[p].result.chord # None
        /\ req[p].result.emotion # NoEmotion
        /\ req[p].result.dialogue # NoTurn
        /\ \E i \in 1..Len(req[p].sent) :
              req[p].sent[i].address = <<"music", "llm", "content">>

\* C18: a MIDI request always carries the zero-filled descriptors, chord
\* or not; when it runs the classifier it does so on the all-zero features,
\* and its gated emotion is the one outcome the loaded model and the
\* threshold give for that input.
C18_MidiEmotionIsConstant ==
    \A p \in Threads :
        req[p].kind = "midi" =>
            /\ req[p].descriptors = ZeroDescriptors
            /\ req[p].result # NoResult
                  => req[p].result.descriptors = ZeroDescriptors
            /\ req[p].ncls > 0
                  => /\ NumericFeatures(req[p].descriptors) = ZeroDescriptors
                     /\ req[p].prediction.probabilities
                           = classifier[ZeroDescriptors]
                     /\ req[p].emotion =
                           IF classifier[ZeroDescriptors][req[p].prediction.label]
                                 < confidence_threshold
                           THEN NoEmotion
                           ELSE req[p].prediction

C18_Witness ==
    \E p \in Threads :
        /\ At(p, "done")
        /\ req[p].kind = "midi"
        /\ req[p].result.chord # None
        /\ req[p].ncls = 1
        /\ req[p].result.emotion # NoEmotion
        /\ req[p].result.descriptors = ZeroDescriptors
        /\ req[p].result.dialogue # NoTurn

====
